---- MODULE Spec2Model ----
(***************************************************************************)
(* Model of Llama33ToolParser (tool_plugin.py): extract_tool_calls and the *)
(* helpers it drives (_extract_json_blocks, _find_json_in_text,            *)
(* _parse_json_tool_call).                                                 *)
(*                                                                         *)
(* A text is a sequence of tokens.  A token is a one-character string, or  *)
(* one of a few multi-character lexemes the code only ever treats as a     *)
(* unit: the two marker literals, the triple-backtick fence, the tag       *)
(* "json" and the key words "name" and "arguments".  Joining the tokens of *)
(* a text gives the Python string the code receives; offsets are counted   *)
(* in tokens.                                                              *)
(***************************************************************************)
EXTENDS Integers, Sequences, FiniteSets, TLC

\* ------------------------------------------------------------------ tokens

DQ == "\""
SQ == "'"
SP == " "
NL == "\n"
LB == "{"
RB == "}"
LK == "["
RK == "]"
COMMA == ","
COLON == ":"
SLASH == "/"
\* the triple-backtick fence (a backquote cannot be written in a string here)
FENCE == "<fence>"
JSONTAG == "json"
DIGIT == "1"
\* the literal NaN, which json.loads accepts (as the one float object the
\* decoder keeps for it) and json.dumps writes
NAN == "NaN"

\* self.tool_use_start / self.tool_use_end
tool_use_start == "<|tool_call|>"
tool_use_end == "<|tool_call_end|>"

\* what \s and str.strip() treat as whitespace (of the tokens in use)
Whitespace == {SP, NL}

\* ------------------------------------------------------- string primitives

\* s[a:b] of Python, a and b 0-based offsets already clamped by the caller
Slice(s, a, b) == SubSeq(s, a + 1, b)

\* str.strip()
strip(s) ==
  LET keep == {i \in 1..Len(s) : s[i] \notin Whitespace}
  IN IF keep = {} THEN <<>>
     ELSE SubSeq(s, CHOOSE i \in keep : \A j \in keep : i <= j,
                    CHOOSE i \in keep : \A j \in keep : j <= i)

\* whether pat occurs in s at 0-based offset i
MatchAt(s, pat, i) ==
  /\ i >= 0
  /\ i + Len(pat) <= Len(s)
  /\ \A k \in 1..Len(pat) : s[i + k] = pat[k]

\* str.find(pat): the first offset of pat in s, -1 when there is none
find(s, pat) ==
  LET hits == {i \in 0..Len(s) : MatchAt(s, pat, i)}
  IN IF hits = {} THEN -1 ELSE CHOOSE i \in hits : \A j \in hits : i <= j

\* pat in s
Contains(s, pat) == find(s, pat) # -1

\* the smallest member of a non-empty set of integers
Least(S) == CHOOSE i \in S : \A j \in S : i <= j

\* Body applied to v: a local variable holding a value computed once
With(v, Body(_)) == Body(v)

\* ------------------------------------------------------------ json.loads
(* A JSON value is a record [t, s, items]: t is "str", "num", "nan", "obj" *)
(* or "arr"; s holds the tokens of a string or a number; items holds the      *)
(* elements of an array, or the members [k, v] of an object in insertion   *)
(* order with a repeated key overwritten in place, as a Python dict does.  *)
(* A parse step returns [ok, exc, v, next]: next is the 1-based index      *)
(* after the value; ok = FALSE stands for an exception, exc its class:     *)
(* json.JSONDecodeError for text that is not JSON, ValueError for an       *)
(* integer of more digits than int() converts, RecursionError for nesting  *)
(* deeper than the interpreter's stack allows.                             *)

\* sys.get_int_max_str_digits(), 4300 in the interpreter, scaled down
MaxDigits == 2
\* the objects and arrays the scanner can be inside of at once, about
\* sys.getrecursionlimit() = 1000 in the interpreter, scaled down
RecursionLimit == 6

JStr(s) == [t |-> "str", s |-> s, items |-> <<>>]
JNum(s) == [t |-> "num", s |-> s, items |-> <<>>]
JNaN == [t |-> "nan", s |-> <<>>, items |-> <<>>]
JObj(members) == [t |-> "obj", s |-> <<>>, items |-> members]
JArr(elems) == [t |-> "arr", s |-> <<>>, items |-> elems]
JRaise(exc) == [ok |-> FALSE, exc |-> exc, v |-> JNum(<<>>), next |-> 0]
JFail == JRaise("JSONDecodeError")
JOk(v, next) == [ok |-> TRUE, exc |-> "", v |-> v, next |-> next]

\* the index of the first non-whitespace token at or after i (Len+1 if none)
SkipWS(s, i) ==
  LET rest == {j \in i..Len(s) : s[j] \notin Whitespace}
  IN IF rest = {} THEN Len(s) + 1 ELSE Least(rest)

\* dict[k] = v
DictPut(members, k, v) ==
  IF \E i \in 1..Len(members) : members[i].k = k
  THEN [i \in 1..Len(members) |->
          IF members[i].k = k THEN [k |-> k, v |-> v] ELSE members[i]]
  ELSE Append(members, [k |-> k, v |-> v])

\* a string literal opening at s[i] = DQ: up to the next DQ, no raw newline
ParseString(s, i) ==
  LET closes == {j \in (i + 1)..Len(s) : s[j] = DQ}
  IN IF closes = {} THEN JFail
     ELSE LET j == Least(closes)
          IN IF \E k \in (i + 1)..(j - 1) : s[k] = NL THEN JFail
             ELSE JOk(JStr(SubSeq(s, i + 1, j - 1)), j + 1)

\* a number starting at s[i] = DIGIT: the maximal run of digits, which int()
\* refuses to convert when it is too long
ParseNumber(s, i) ==
  LET stops == {j \in i..Len(s) : s[j] # DIGIT}
      e == IF stops = {} THEN Len(s) + 1 ELSE Least(stops)
  IN IF e - i > MaxDigits THEN JRaise("ValueError")
     ELSE JOk(JNum(SubSeq(s, i, e - 1)), e)

RECURSIVE ParseValue(_, _, _), ParseMembers(_, _, _, _), ParseElements(_, _, _, _)

\* what follows a member or an element that ended before index n: the
\* closing token (the value is complete), or a comma and more
AfterItem(s, n, closing, done, more) ==
  IF n > Len(s) THEN JFail
  ELSE IF s[n] = closing THEN JOk(done, n + 1)
  ELSE IF s[n] = COMMA THEN more
  ELSE JFail

\* the members of an object at depth d, s[i] being the first token of a key
ParseMembers(s, i, acc, d) ==
  IF i > Len(s) \/ s[i] # DQ THEN JFail
  ELSE With(ParseString(s, i), LAMBDA key :
    IF ~key.ok THEN key
    ELSE With(SkipWS(s, key.next), LAMBDA c :
      IF c > Len(s) \/ s[c] # COLON THEN JFail
      ELSE With(ParseValue(s, SkipWS(s, c + 1), d), LAMBDA val :
        IF ~val.ok THEN val
        ELSE With(SkipWS(s, val.next), LAMBDA n :
          With(DictPut(acc, key.v.s, val.v), LAMBDA acc2 :
            AfterItem(s, n, RB, JObj(acc2),
                      ParseMembers(s, SkipWS(s, n + 1), acc2, d)))))))

\* the elements of an array at depth d, s[i] being the first token of one
ParseElements(s, i, acc, d) ==
  With(ParseValue(s, i, d), LAMBDA val :
    IF ~val.ok THEN val
    ELSE With(SkipWS(s, val.next), LAMBDA n :
      AfterItem(s, n, RK, JArr(Append(acc, val.v)),
                ParseElements(s, SkipWS(s, n + 1), Append(acc, val.v), d))))

\* the value at s[i], d objects and arrays being open around it; the scanner
\* enters a recursive call for every object and every array it opens
ParseValue(s, i, d) ==
  IF i > Len(s) THEN JFail
  ELSE IF s[i] = DQ THEN ParseString(s, i)
  ELSE IF s[i] = DIGIT THEN ParseNumber(s, i)
  ELSE IF s[i] = NAN THEN JOk(JNaN, i + 1)
  ELSE IF s[i] \in {LB, LK} /\ d >= RecursionLimit THEN JRaise("RecursionError")
  ELSE IF s[i] = LB
       THEN With(SkipWS(s, i + 1), LAMBDA n :
              IF n <= Len(s) /\ s[n] = RB THEN JOk(JObj(<<>>), n + 1)
              ELSE ParseMembers(s, n, <<>>, d + 1))
  ELSE IF s[i] = LK
       THEN With(SkipWS(s, i + 1), LAMBDA n :
              IF n <= Len(s) /\ s[n] = RK THEN JOk(JArr(<<>>), n + 1)
              ELSE ParseElements(s, n, <<>>, d + 1))
  ELSE JFail

\* json.loads(s): one value, whitespace around it, nothing else
loads(s) ==
  With(ParseValue(s, SkipWS(s, 1), 0), LAMBDA r :
    IF ~r.ok THEN r
    ELSE IF SkipWS(s, r.next) = Len(s) + 1 THEN r ELSE JFail)

\* ------------------------------------------------------------ json.dumps

RECURSIVE dumps(_), DumpMembers(_), DumpElements(_)

\* json.dumps(v) with the default separators ", " and ": "
dumps(v) ==
  IF v.t = "str" THEN <<DQ>> \o v.s \o <<DQ>>
  ELSE IF v.t = "num" THEN v.s
  ELSE IF v.t = "nan" THEN <<NAN>>
  ELSE IF v.t = "obj" THEN <<LB>> \o DumpMembers(v.items) \o <<RB>>
  ELSE <<LK>> \o DumpElements(v.items) \o <<RK>>

DumpMembers(ms) ==
  IF ms = <<>> THEN <<>>
  ELSE <<DQ>> \o ms[1].k \o <<DQ, COLON, SP>> \o dumps(ms[1].v)
       \o (IF Len(ms) = 1 THEN <<>> ELSE <<COMMA, SP>> \o DumpMembers(Tail(ms)))

DumpElements(xs) ==
  IF xs = <<>> THEN <<>>
  ELSE dumps(xs[1])
       \o (IF Len(xs) = 1 THEN <<>> ELSE <<COMMA, SP>> \o DumpElements(Tail(xs)))

\* --------------------------------------------------- the repair rewrites

\* re.sub(r"^\s*FENCE(?:json)?", "", s)
StripLeadingFence(s) ==
  LET i == SkipWS(s, 1)
  IN IF i <= Len(s) /\ s[i] = FENCE
     THEN IF i + 1 <= Len(s) /\ s[i + 1] = JSONTAG
          THEN SubSeq(s, i + 2, Len(s))
          ELSE SubSeq(s, i + 1, Len(s))
     ELSE s

\* re.sub(r"FENCE\s*$", "", s)
StripTrailingFence(s) ==
  LET ps == {p \in 1..Len(s) :
               s[p] = FENCE /\ \A k \in (p + 1)..Len(s) : s[k] \in Whitespace}
  IN IF ps = {} THEN s ELSE SubSeq(s, 1, Least(ps) - 1)

\* Where, at or after 0-based offset i, the pattern  pre (.*?) post  first
\* matches, "." not matching a newline: [p, q] with pre at p and post at q,
\* or [p |-> -1] when it matches nowhere.
LazyMatch(s, i, pre, post) ==
  LET ends(p) == {q \in (p + Len(pre))..Len(s) : MatchAt(s, post, q)}
      ok(p) == /\ MatchAt(s, pre, p)
               /\ ends(p) # {}
               /\ \A k \in (p + Len(pre) + 1)..Least(ends(p)) : s[k] # NL
      ps == {p \in i..Len(s) : ok(p)}
  IN IF ps = {} THEN [p |-> -1, q |-> -1]
     ELSE [p |-> Least(ps), q |-> Least(ends(Least(ps)))]

RECURSIVE SubLazy(_, _, _, _, _, _)

\* re.sub(pre (.*?) post, pre2 \1 post2, s), from 0-based offset i on
SubLazy(s, i, pre, post, pre2, post2) ==
  With(LazyMatch(s, i, pre, post), LAMBDA m :
    IF m.p = -1 THEN Slice(s, i, Len(s))
    ELSE Slice(s, i, m.p) \o pre2 \o Slice(s, m.p + Len(pre), m.q) \o post2
         \o SubLazy(s, m.q + Len(post), pre, post, pre2, post2))

\* line 191: single-quoted keys
FixKeys(s) == SubLazy(s, 0, <<SQ>>, <<SQ, COLON>>, <<DQ>>, <<DQ, COLON>>)

\* line 192: single-quoted values
FixValues(s) == SubLazy(s, 0, <<COLON, SP, SQ>>, <<SQ>>, <<COLON, SP, DQ>>, <<DQ>>)

\* line 193: single-quoted array values
FixArrayValues(s) == SubLazy(s, 0, <<LK, SQ>>, <<SQ, RK>>, <<LK, DQ>>, <<DQ, RK>>)

\* lines 190-193: single-quoted JSON to double quotes
FixSingleQuotes(s) ==
  IF Contains(s, <<SQ>>) THEN FixArrayValues(FixValues(FixKeys(s))) ELSE s

RECURSIVE StripComments(_)

\* re.sub(r"//.*?\n", "", s)
StripComments(s) ==
  With(LazyMatch(s, 0, <<SLASH, SLASH>>, <<NL>>), LAMBDA m :
    IF m.p = -1 THEN s
    ELSE Slice(s, 0, m.p) \o StripComments(Slice(s, m.q + 1, Len(s))))

RECURSIVE StripTrailingCommas(_)

\* re.sub(r",\s*(?=[}\]])", "", s)
StripTrailingCommas(s) ==
  LET ps == {p \in 1..Len(s) :
               /\ s[p] = COMMA
               /\ SkipWS(s, p + 1) <= Len(s)
               /\ s[SkipWS(s, p + 1)] \in {RB, RK}}
  IN IF ps = {} THEN s
     ELSE SubSeq(s, 1, Least(ps) - 1)
          \o StripTrailingCommas(SubSeq(s, SkipWS(s, Least(ps) + 1), Len(s)))

\* ------------------------------------------------- _parse_json_tool_call

\* "key" in tool_call
HasKey(v, key) == \E i \in 1..Len(v.items) : v.items[i].k = <<key>>

\* tool_call["key"]
Get(v, key) == v.items[CHOOSE i \in 1..Len(v.items) : v.items[i].k = <<key>>].v

\* lines 185-196: json_str as handed to the first json.loads
Repaired(json_str) ==
  StripComments(FixSingleQuotes(StripTrailingFence(StripLeadingFence(strip(json_str)))))

\* line 232: json_str as handed to the second json.loads
RepairedAgain(json_str) == StripTrailingCommas(Repaired(json_str))

\* lines 202-215 (and 236-252): the structure a parsed tool_call must have
Validate(tool_call) ==
  /\ tool_call.t = "obj"
  /\ HasKey(tool_call, "name") /\ HasKey(tool_call, "arguments")
  /\ Get(tool_call, "name").t = "str"
  /\ strip(Get(tool_call, "name").s) # <<>>
  /\ Get(tool_call, "arguments").t \in {"obj", "str"}

\* ArgumentsString serializing a string as well
ArgumentsDumped(arguments) == dumps(arguments)

\* lines 218-220: arguments, a mapping serialized, a string as it is
ArgumentsString(arguments) ==
  IF arguments.t = "obj" THEN dumps(arguments) ELSE arguments.s

\* lines 222-228: the ToolCall built from a validated tool_call (its id, a
\* fresh random string, is left out)
MakeToolCall(tool_call) ==
  [type |-> "function",
   name |-> Get(tool_call, "name").s,
   arguments |-> ArgumentsString(Get(tool_call, "arguments"))]

\* the exceptions the two except clauses (lines 229, 268) catch
ParseCaught == {"JSONDecodeError", "TypeError"}

\* lines 201-228 (and 235-267): what is returned for what json.loads gave
Converted(parsed) ==
  IF ~parsed.ok
  THEN [raised |-> parsed.exc \notin ParseCaught, calls |-> <<>>]
  ELSE IF Validate(parsed.v)
       THEN [raised |-> FALSE, calls |-> <<MakeToolCall(parsed.v)>>]
       ELSE [raised |-> FALSE, calls |-> <<>>]

\* the value the json.loads that succeeded produced: the first (line 199),
\* else the second (line 233), which is tried when line 229 caught what the
\* first raised; ok = FALSE with the exception that ended the attempts
ParsedToolCall(json_str) ==
  With(loads(Repaired(json_str)), LAMBDA first :
    IF first.ok \/ first.exc \notin ParseCaught THEN first
    ELSE loads(RepairedAgain(json_str)))

\* _parse_json_tool_call(json_str): [raised, calls], calls the list returned
\* and raised whether an exception escaped instead
_parse_json_tool_call(json_str) == Converted(ParsedToolCall(json_str))

\* -------------------------------------------------- _extract_json_blocks

\* The match of FENCE(?:json)?\s*\n(.*?)\nFENCE (DOTALL) whose opening fence
\* is s[p], if any: [ok, inner, last], inner the tokens of group 1 and last
\* the index of the closing fence.  \s* is greedy: it runs to the last
\* newline of the whitespace after the tag, and gives one newline back only
\* when no closing "\nFENCE" follows that one.
BlockAt(s, p) ==
  LET a == IF p + 1 <= Len(s) /\ s[p + 1] = JSONTAG THEN p + 2 ELSE p + 1
      w == SkipWS(s, a)
      nls == {j \in a..(w - 1) : s[j] = NL}
      closes(j) == {k \in (j + 1)..(Len(s) - 1) : s[k] = NL /\ s[k + 1] = FENCE}
      jmax == CHOOSE j \in nls : \A i \in nls : i <= j
      before == nls \ {jmax}
  IN IF s[p] # FENCE \/ nls = {} THEN [ok |-> FALSE, inner |-> <<>>, last |-> 0]
     ELSE IF closes(jmax) # {}
          THEN [ok |-> TRUE,
                inner |-> SubSeq(s, jmax + 1, Least(closes(jmax)) - 1),
                last |-> Least(closes(jmax)) + 1]
     ELSE IF before # {} /\ jmax < Len(s) /\ s[jmax + 1] = FENCE
          THEN [ok |-> TRUE,
                inner |-> SubSeq(s, (CHOOSE j \in before : \A i \in before : i <= j) + 1,
                                 jmax - 1),
                last |-> jmax + 1]
     ELSE [ok |-> FALSE, inner |-> <<>>, last |-> 0]

RECURSIVE BlocksFrom(_, _)

\* re.finditer from index i on: the blocks in order, none overlapping
BlocksFrom(s, i) ==
  LET ps == {p \in i..Len(s) : BlockAt(s, p).ok}
  IN IF ps = {} THEN <<>>
     ELSE With(BlockAt(s, Least(ps)), LAMBDA m :
            <<[inner_content |-> strip(m.inner),
               block_start |-> Least(ps) - 1,
               block_end |-> m.last]>>
            \o BlocksFrom(s, m.last + 1))

_extract_json_blocks(text) == BlocksFrom(text, 1)

\* ---------------------------------------------------- _find_json_in_text

\* how deep the pattern of line 150 lets braces nest
BraceDepth == 3

RECURSIVE BraceClose(_, _, _)

\* The pattern of line 150 from an opening brace on: i the next index to
\* read, d the braces open.  The index of the brace that closes the first
\* one, 0 when the text ends first or nests deeper than the pattern allows.
\* Every brace counts, also one inside a string literal.
BraceClose(s, i, d) ==
  IF i > Len(s) THEN 0
  ELSE IF s[i] = LB THEN (IF d = BraceDepth THEN 0 ELSE BraceClose(s, i + 1, d + 1))
  ELSE IF s[i] = RB THEN (IF d = 1 THEN i ELSE BraceClose(s, i + 1, d - 1))
  ELSE BraceClose(s, i + 1, d)

RECURSIVE BraceMatches(_, _)

\* re.findall(pattern, text) from index i on, each match with the offset it
\* was found at (findall itself returns the strings only)
BraceMatches(s, i) ==
  LET ps == {p \in i..Len(s) : s[p] = LB /\ BraceClose(s, p + 1, 1) # 0}
  IN IF ps = {} THEN <<>>
     ELSE With(BraceClose(s, Least(ps) + 1, 1), LAMBDA e :
            <<[text |-> SubSeq(s, Least(ps), e), at |-> Least(ps) - 1]>>
            \o BraceMatches(s, e + 1))

\* isinstance(parsed, dict) and "name" in parsed and "arguments" in parsed
LooksLikeToolCall(r) ==
  r.ok /\ r.v.t = "obj" /\ HasKey(r.v, "name") /\ HasKey(r.v, "arguments")

\* lines 165-167: the cleaning of a candidate that did not parse
Cleaned(candidate) == StripComments(StripTrailingCommas(strip(candidate)))

\* the exception the except clauses of lines 144, 163 and 177 catch
FindCaught == {"JSONDecodeError"}

NoJson == [raised |-> FALSE, found |-> FALSE, text |-> <<>>, at |-> -1]

\* an exception no except clause caught leaves _find_json_in_text
FindRaised == [raised |-> TRUE, found |-> FALSE, text |-> <<>>, at |-> -1]

FoundJson(text, at) == [raised |-> FALSE, found |-> TRUE, text |-> text, at |-> at]

RECURSIVE FirstJsonCandidate(_)

\* lines 153-179: the first candidate that parses, as is or cleaned, to a
\* mapping with both keys
FirstJsonCandidate(json_candidates) ==
  IF json_candidates = <<>> THEN NoJson
  ELSE With(Head(json_candidates), LAMBDA c :
    With(loads(c.text), LAMBDA parsed :
      IF LooksLikeToolCall(parsed) THEN FoundJson(c.text, c.at)
      ELSE IF parsed.ok THEN FirstJsonCandidate(Tail(json_candidates))
      ELSE IF parsed.exc \notin FindCaught THEN FindRaised
      ELSE With(loads(Cleaned(c.text)), LAMBDA again :
        IF LooksLikeToolCall(again) THEN FoundJson(Cleaned(c.text), c.at)
        ELSE IF ~again.ok /\ again.exc \notin FindCaught THEN FindRaised
        ELSE FirstJsonCandidate(Tail(json_candidates)))))

\* _find_json_in_text(text): [raised, found, text, at]; found = FALSE is
\* None, text is the string returned and at the offset in the input of what
\* it was taken from (the code returns the string alone)
_find_json_in_text(text) ==
  With(loads(text), LAMBDA parsed :
    IF LooksLikeToolCall(parsed) THEN FoundJson(text, 0)
    ELSE IF ~parsed.ok /\ parsed.exc \notin FindCaught THEN FindRaised
    ELSE FirstJsonCandidate(BraceMatches(text, 1)))

\* ---------------------------------------------------- extract_tool_calls

None == [present |-> FALSE, text |-> <<>>]

\* x or None, x a string
OrNone(x) == IF x = <<>> THEN None ELSE [present |-> TRUE, text |-> x]

\* A candidate is the dict the code appends, [start, tool_calls, content],
\* with two notes the code does not keep: json_str, the text that was handed
\* to _parse_json_tool_call, and at, the offset of the text the candidate was
\* read from.
Candidate(start, tool_calls, content, json_str, at) ==
  [start |-> start, tool_calls |-> tool_calls, content |-> OrNone(content),
   json_str |-> json_str, at |-> at]

\* line 55: both markers occur in the output
MarkersPresent(text) ==
  Contains(text, <<tool_use_start>>) /\ Contains(text, <<tool_use_end>>)

\* lines 61-72: the candidate of the text between the markers, if it parses
MarkerCandidate(text, marker, json_str) ==
  With(_parse_json_tool_call(json_str), LAMBDA tool_calls :
    IF tool_calls.raised THEN [raised |-> TRUE, cands |-> <<>>]
    ELSE IF tool_calls.calls = <<>> THEN [raised |-> FALSE, cands |-> <<>>]
    ELSE [raised |-> FALSE,
          cands |-> <<Candidate(marker, tool_calls.calls,
                                strip(Slice(text, 0, marker)), json_str, marker)>>])

\* lines 54-72, special token extraction: [raised, cands]; str.index raises
\* ValueError on a marker that does not occur
MarkerCandidates(text) ==
  IF ~MarkersPresent(text) THEN [raised |-> FALSE, cands |-> <<>>]
  ELSE With(find(text, <<tool_use_start>>), LAMBDA marker :
    With(find(text, <<tool_use_end>>), LAMBDA end_idx :
      IF marker = -1 \/ end_idx = -1 THEN [raised |-> TRUE, cands |-> <<>>]
      ELSE MarkerCandidate(text, marker, strip(Slice(text, marker + 1, end_idx)))))

RECURSIVE BlockCandidates(_, _)

\* lines 76-87: the loop over the blocks
BlockCandidates(text, json_block_info) ==
  IF json_block_info = <<>> THEN [raised |-> FALSE, cands |-> <<>>]
  ELSE With(Head(json_block_info), LAMBDA block_info :
    With(_parse_json_tool_call(block_info.inner_content), LAMBDA tool_calls :
      With(BlockCandidates(text, Tail(json_block_info)), LAMBDA rest :
        IF tool_calls.raised \/ rest.raised THEN [raised |-> TRUE, cands |-> <<>>]
        ELSE IF tool_calls.calls = <<>> THEN rest
        ELSE [raised |-> FALSE,
              cands |-> <<Candidate(block_info.block_start, tool_calls.calls,
                                    strip(Slice(text, 0, block_info.block_start)),
                                    block_info.inner_content,
                                    block_info.block_start)>> \o rest.cands])))

\* lines 74-87, markdown code block extraction
FencedCandidates(text) == BlockCandidates(text, _extract_json_blocks(text))

\* lines 92-104: the candidate of the string _find_json_in_text returned
BareCandidate(text, json_match) ==
  With(_parse_json_tool_call(json_match.text), LAMBDA tool_calls :
    With(find(text, json_match.text), LAMBDA json_start :
      IF tool_calls.raised THEN [raised |-> TRUE, cands |-> <<>>]
      ELSE IF tool_calls.calls = <<>> \/ json_start = -1
           THEN [raised |-> FALSE, cands |-> <<>>]
      ELSE [raised |-> FALSE,
            cands |-> <<Candidate(json_start, tool_calls.calls,
                                  strip(Slice(text, 0, json_start)),
                                  json_match.text, json_match.at)>>]))

\* lines 89-104, JSON pattern search
BareCandidates(text) ==
  With(_find_json_in_text(text), LAMBDA json_match :
    IF json_match.raised THEN [raised |-> TRUE, cands |-> <<>>]
    ELSE IF json_match.found THEN BareCandidate(text, json_match)
    ELSE [raised |-> FALSE, cands |-> <<>>])

RECURSIVE SortByStart(_)

\* candidates.sort(key=start): stable, equal starts keep their order
SortByStart(cands) ==
  IF cands = <<>> THEN <<>>
  ELSE LET firsts == {i \in 1..Len(cands) :
                        \A j \in 1..Len(cands) : cands[i].start <= cands[j].start}
           i == Least(firsts)
       IN <<cands[i]>>
          \o SortByStart([k \in 1..(Len(cands) - 1) |->
                            IF k < i THEN cands[k] ELSE cands[k + 1]])

\* the result of an extraction that raised instead of returning
Raised == [raised |-> TRUE, tools_called |-> FALSE, tool_calls |-> <<>>, content |-> None]

\* lines 118-120: no tool calls found
NoToolCalls(text) ==
  [raised |-> FALSE, tools_called |-> FALSE, tool_calls |-> <<>>,
   content |-> [present |-> TRUE, text |-> text]]

RECURSIVE EveryToolCall(_)
\* the tool calls of all the candidates, in order
EveryToolCall(cands) ==
  IF cands = <<>> THEN <<>> ELSE Head(cands).tool_calls \o EveryToolCall(Tail(cands))

\* Selected returning the calls of every candidate, not of the earliest
SelectedEvery(text, cands) ==
  IF cands # <<>>
  THEN [raised |-> FALSE, tools_called |-> TRUE,
        tool_calls |-> EveryToolCall(SortByStart(cands)),
        content |-> Head(SortByStart(cands)).content]
  ELSE [raised |-> FALSE, tools_called |-> FALSE, tool_calls |-> <<>>,
        content |-> [present |-> TRUE, text |-> text]]

\* lines 106-120: the ExtractedToolCallInformation returned
Selected(text, cands) ==
  IF cands # <<>>
  THEN With(Head(SortByStart(cands)), LAMBDA earliest :
         [raised |-> FALSE, tools_called |-> TRUE,
          tool_calls |-> earliest.tool_calls,
          content |-> earliest.content])
  ELSE NoToolCalls(text)

\* lines 52-104: the three strategies one after the other
AllCandidates(text) ==
  With(MarkerCandidates(text), LAMBDA m :
    With(FencedCandidates(text), LAMBDA f :
      With(BareCandidates(text), LAMBDA b :
        [raised |-> m.raised \/ f.raised \/ b.raised,
         cands |-> m.cands \o f.cands \o b.cands])))

\* extract_tool_calls(model_output, request) as one function of the text
extract_tool_calls(text) ==
  With(AllCandidates(text), LAMBDA all :
    IF all.raised THEN Raised ELSE Selected(text, all.cands))

\* ------------------------------------------------------------ the inputs
(* The model outputs the extraction is run on.  A layout is                *)
(* [pre, calls, post]: some text, then tool-call objects, each in one of   *)
(* the forms the strategies look for, a newline between two of them, then  *)
(* some text.                                                              *)

\* the deepest nesting of an "arguments" value among the inputs
MaxDepth == 3
\* the most tool-call objects in one model output
MaxCalls == 2

Quote(body) == <<DQ>> \o body \o <<DQ>>
Member(key, value) == Quote(<<key>>) \o <<COLON>> \o value
ObjectOf(name, arguments) ==
  <<LB>> \o Member("name", name) \o <<COMMA>> \o Member("arguments", arguments) \o <<RB>>

RECURSIVE Nested(_)
\* 1, {"a":1}, {"a":{"a":1}}, ...
Nested(d) == IF d = 0 THEN <<DIGIT>> ELSE <<LB>> \o Member("a", Nested(d - 1)) \o <<RB>>

NameTexts == {Quote(<<"a">>), Quote(<<"b">>), Quote(<<>>), Quote(<<SP>>), <<DIGIT>>}
ArgumentTexts ==
  {Nested(d) : d \in 0..MaxDepth}
    \cup {<<LB, RB>>, Quote(<<"x">>), <<LK, DIGIT, RK>>}

\* {"name":"a","arguments":{}}
PlainCall == ObjectOf(Quote(<<"a">>), <<LB, RB>>)

\* objects with every pairing of a name and an arguments text
ShapedObjects == {ObjectOf(n, a) : n \in NameTexts, a \in ArgumentTexts}

\* values that are not a mapping with both keys
OtherValues ==
  { <<LB>> \o Member("name", Quote(<<"a">>)) \o <<RB>>,
    <<LB>> \o Member("arguments", <<LB, RB>>) \o <<RB>>,
    <<LB>> \o Member("a", PlainCall) \o <<RB>>,
    <<LB>> \o Member("a", ObjectOf(Quote(<<"a">>), Nested(2))) \o <<RB>>,
    <<LK>> \o PlainCall \o <<RK>>,
    Quote(<<"a">>),
    <<DIGIT>> }

\* objects that are valid JSON only after a repair, or not at all
NearMisses ==
  { <<LB>> \o Member("name", Quote(<<"a">>)) \o <<COMMA>>
         \o Member("arguments", <<LB, RB>>) \o <<COMMA, RB>>,
    ObjectOf(Quote(<<"a">>), <<LB>> \o Member("a", <<DIGIT>>) \o <<COMMA, SP, RB>>),
    <<LB, SLASH, SLASH, "x", NL>> \o Member("name", Quote(<<"a">>)) \o <<COMMA>>
         \o Member("arguments", <<LB, RB>>) \o <<RB>>,
    <<LB, SLASH, SLASH, "x", NL>> \o Member("name", Quote(<<"b">>)) \o <<COMMA>>
         \o Member("arguments", <<LB, RB>>) \o <<COMMA, NL, RB>>,
    <<LB, SQ, "name", SQ, COLON, SP, SQ, "a", SQ, COMMA, SP,
      SQ, "arguments", SQ, COLON, SP, LB, RB, RB>>,
    <<LB>> \o Member("name", Quote(<<"a">>)) \o <<COMMA>>
         \o Member("arguments", <<LB, RB>>),
    <<LB>> \o Member("name", Quote(<<"a">>)) \o <<COMMA>>
         \o Member("arguments", <<LB, "x", RB>>) \o <<RB>> }

\* valid tool calls whose text holds what a repair would rewrite
TrickyCalls ==
  { ObjectOf(Quote(<<"a">>), Quote(<<"x", SQ, "x">>)),
    ObjectOf(Quote(<<"a">>), <<LB>> \o Member("a", Quote(<<SQ, "x", SQ, COLON>>)) \o <<RB>>),
    ObjectOf(Quote(<<"a">>), Quote(<<COLON, SP, SQ, "x", SQ>>)),
    ObjectOf(Quote(<<"a">>), Quote(<<SLASH, SLASH, "x">>)),
    ObjectOf(Quote(<<"a">>), Quote(<<SLASH, SLASH>>) \o <<NL>>),
    ObjectOf(Quote(<<"a">>), Quote(<<COMMA, RK>>)),
    ObjectOf(Quote(<<"a">>), Quote(<<COMMA, RB>>)),
    <<LB, NL, SP>> \o Member("name", <<SP>> \o Quote(<<"a">>)) \o <<COMMA, NL, SP>>
         \o Member("arguments", <<SP, LB, RB>>) \o <<NL, RB>> }

RECURSIVE Repeated(_, _)
\* n times the token t
Repeated(t, n) == IF n = 0 THEN <<>> ELSE <<t>> \o Repeated(t, n - 1)

\* values at and past what json.loads converts: an integer of the most
\* digits and of one more, alone and in a tool call; arrays nested as deep
\* as the scanner goes and one deeper; the literal NaN in the arguments
LimitValues ==
  { Repeated(DIGIT, MaxDigits + 1),
    <<LK>> \o Repeated(DIGIT, MaxDigits + 1) \o <<RK>>,
    ObjectOf(Quote(<<"a">>), <<LB>> \o Member("a", Repeated(DIGIT, MaxDigits)) \o <<RB>>),
    ObjectOf(Quote(<<"a">>), <<LB>> \o Member("a", Repeated(DIGIT, MaxDigits + 1)) \o <<RB>>),
    ObjectOf(Quote(<<"a">>), Quote(Repeated(DIGIT, MaxDigits + 1))),
    Repeated(LK, RecursionLimit) \o Repeated(RK, RecursionLimit),
    Repeated(LK, RecursionLimit + 1) \o Repeated(RK, RecursionLimit + 1),
    ObjectOf(Quote(<<"a">>), <<LB>> \o Member("a", <<NAN>>) \o <<RB>>),
    ObjectOf(Quote(<<"a">>), <<NAN>>) }

Objects ==
  ShapedObjects \cup OtherValues \cup NearMisses \cup TrickyCalls \cup LimitValues

\* the objects that outputs with several calls are made of
PairedObjects ==
  { PlainCall,
    ObjectOf(Quote(<<"b">>), Nested(1)),
    ObjectOf(Quote(<<"b">>), Nested(MaxDepth)),
    ObjectOf(Quote(<<>>), <<LB, RB>>),
    <<LB>> \o Member("a", PlainCall) \o <<RB>>,
    <<LB>> \o Member("name", Quote(<<"a">>)) \o <<COMMA>>
         \o Member("arguments", <<LB, RB>>) \o <<COMMA, RB>> }

Forms == {"bare", "fenced", "marker"}

\* forms with one marker of the pair only
UnmatchedForms == {"start_only", "end_only"}

\* an object in the form a strategy looks for
Wrap(form, object) ==
  IF form = "fenced" THEN <<FENCE, JSONTAG, NL>> \o object \o <<NL, FENCE>>
  ELSE IF form = "marker" THEN <<tool_use_start>> \o object \o <<tool_use_end>>
  ELSE IF form = "marker_fenced"
       THEN <<tool_use_start, FENCE, JSONTAG, NL>> \o object \o <<NL, FENCE, tool_use_end>>
  ELSE IF form = "start_only" THEN <<tool_use_start>> \o object
  ELSE IF form = "end_only" THEN object \o <<tool_use_end>>
  ELSE object

\* outputs without any object
PlainTexts ==
  { <<>>, <<SP>>, <<NL>>, <<"x">>, <<NL, "x", SP>>, <<tool_use_start>>,
    <<tool_use_end>>, <<tool_use_start, "x", tool_use_end>>,
    <<tool_use_end, PlainCall[1], tool_use_start>>,
    <<FENCE, NL, "x", NL, FENCE>>, <<FENCE, NL, NL, FENCE>>, <<LB, RB>> }

LeadingTexts == {<<>>, <<SP>>, <<"x", SP>>, <<tool_use_end, "x">>}
TrailingTexts == {<<>>, <<SP, "x">>}

Layouts ==
  {[pre |-> p, calls |-> <<>>, post |-> <<>>] : p \in PlainTexts}
    \cup {[pre |-> p, calls |-> <<[form |-> f, object |-> o]>>, post |-> q] :
            p \in LeadingTexts, q \in TrailingTexts,
            f \in Forms \cup {"marker_fenced"} \cup UnmatchedForms, o \in Objects}
    \cup {[pre |-> p, calls |-> cs, post |-> <<>>] :
            p \in {<<>>, <<"x", SP>>},
            cs \in UNION {[1..n -> [form : Forms, object : PairedObjects]] :
                            n \in 2..MaxCalls}}

RECURSIVE Joined(_)
\* the calls of a layout as text, a newline between two
Joined(calls) ==
  IF calls = <<>> THEN <<>>
  ELSE Wrap(calls[1].form, calls[1].object)
       \o (IF Len(calls) = 1 THEN <<>> ELSE <<NL>> \o Joined(Tail(calls)))

\* the model output a layout stands for
Render(l) == l.pre \o Joined(l.calls) \o l.post

\* ------------------------------------------------- the reasoning parser
\* DeepSeekR1ReasoningParser (module example_reasoning_parser): its code is
\* not among the sources, the definitions below follow the specification
\* (4.2 Reasoning Segmenter, 4.3 Reasoning Stream Tracker) and the calls of
\* test_modified_reasoning_parser.py.

think_start == "<think>"
think_end == "</think>"

\* the vocabulary of the tokenizer: the two markers, and ids of plain tokens
think_start_id == 1000
think_end_id == 1001
PlainIds == [x |-> 200, n |-> 300, s |-> 400]

\* the id of a token of the text (a token is one element of a text)
TokenId(tok) ==
  IF tok = think_start THEN think_start_id
  ELSE IF tok = think_end THEN think_end_id
  ELSE IF tok = NL THEN PlainIds.n
  ELSE IF tok = SP THEN PlainIds.s
  ELSE PlainIds.x

\* the token ids of a text
TokenIds(text) == [i \in 1..Len(text) |-> TokenId(text[i])]

\* whether id is among ids
HasId(ids, id) == \E i \in 1..Len(ids) : ids[i] = id

\* the text after the first pat in s, or s itself when pat is not in s
After(s, pat) ==
  IF Contains(s, pat) THEN Slice(s, find(s, pat) + Len(pat), Len(s)) ELSE s

\* the text before the first pat in s
Before(s, pat) == Slice(s, 0, find(s, pat))

RECURSIVE SkipBlanks(_)
\* s without its leading spaces (a tab is a space here)
SkipBlanks(s) ==
  IF s # <<>> /\ Head(s) = SP THEN SkipBlanks(Tail(s)) ELSE s

\* how many newlines s begins with, counted up to most
LeadingNewlines(s, most) ==
  IF most >= 2 /\ Len(s) >= 2 /\ s[1] = NL /\ s[2] = NL THEN 2
  ELSE IF most >= 1 /\ Len(s) >= 1 /\ s[1] = NL THEN 1
  ELSE 0

\* 4.2: up to two contiguous leading newlines are stripped, once, together
\* with the spaces and tabs around them; what follows stays as it is
SegmenterStrip(s) ==
  With(LeadingNewlines(SkipBlanks(s), 2), LAMBDA n :
    IF n = 0 THEN s
    ELSE SkipBlanks(Slice(SkipBlanks(s), n, Len(SkipBlanks(s)))))

\* 4.2 extract_reasoning_content(model_output): [reasoning, content]
extract_reasoning_content(model_output) ==
  With(After(model_output, <<think_start>>), LAMBDA text :
    IF ~Contains(text, <<think_end>>)
    THEN [reasoning |-> OrNone(text), content |-> None]
    ELSE [reasoning |-> OrNone(Before(text, <<think_end>>)),
          content |-> OrNone(SegmenterStrip(After(text, <<think_end>>)))])

\* up to two leading newlines removed, a single one too
StripUpToTwoNewlines(s) == Slice(s, LeadingNewlines(s, 2), Len(s))

\* 4.3, the whitespace rule: exactly two contiguous leading newlines are
\* removed if both are there; a single one stays, as does any other text
StripTwoNewlines(s) ==
  IF LeadingNewlines(s, 2) = 2 THEN Slice(s, 2, Len(s)) ELSE s

\* a text of whitespace only (the empty text too)
Blank(s) == \A i \in 1..Len(s) : s[i] \in Whitespace

\* A DeltaMessage: reasoning_content and content, each a string or None
DeltaMessage(reasoning_content, content) ==
  [reasoning_content |-> reasoning_content, content |-> content]

\* 4.3, first branch: the end marker id is not in current_token_ids
StillReasoning(delta_text) ==
  DeltaMessage([present |-> TRUE, text |-> delta_text], None)

\* 4.3, second branch: the end marker id first appears in delta_token_ids
Crossing(delta_text) ==
  DeltaMessage([present |-> TRUE, text |-> Before(delta_text, <<think_end>>)],
               OrNone(StripTwoNewlines(After(delta_text, <<think_end>>))))

\* 4.3, third branch: the end marker id is in previous_token_ids already
Continuation(previous_text, delta_text) ==
  DeltaMessage(None,
               IF Blank(After(previous_text, <<think_end>>))
               THEN OrNone(StripTwoNewlines(delta_text))
               ELSE OrNone(delta_text))

\* the boundary counted as crossed earlier only when the delta has no marker
CrossedEarlierUnlessInDelta(previous_token_ids, delta_token_ids) ==
  HasId(previous_token_ids, think_end_id) /\ ~HasId(delta_token_ids, think_end_id)

\* 4.3: whether the boundary was crossed in an earlier call
CrossedEarlier(previous_token_ids, delta_token_ids) ==
  HasId(previous_token_ids, think_end_id)

\* 4.3 extract_reasoning_content_streaming
extract_reasoning_content_streaming(previous_text, current_text, delta_text, previous_token_ids, current_token_ids, delta_token_ids) ==
  IF ~HasId(current_token_ids, think_end_id) THEN StillReasoning(delta_text)
  ELSE IF CrossedEarlier(previous_token_ids, delta_token_ids)
       THEN Continuation(previous_text, delta_text)
       ELSE Crossing(delta_text)

\* the offset of the first id in ids, Len(ids) when there is none
IndexOfId(ids, id) ==
  IF HasId(ids, id) THEN Least({i \in 1..Len(ids) : ids[i] = id}) - 1 ELSE Len(ids)

\* the offset of the last end marker id
LastEndIndex(ids) ==
  IF HasId(ids, think_end_id)
  THEN (CHOOSE i \in {k \in 1..Len(ids) : ids[k] = think_end_id} :
          \A j \in {k \in 1..Len(ids) : ids[k] = think_end_id} : j <= i) - 1
  ELSE Len(ids)

\* the offset of the first end marker id
FirstEndIndex(ids) == IndexOfId(ids, think_end_id)

\* 4.3 extract_content_ids(input_ids): the ids after the first end marker id
extract_content_ids(input_ids) ==
  IF FirstEndIndex(input_ids) + 1 >= Len(input_ids) THEN <<>>
  ELSE Slice(input_ids, FirstEndIndex(input_ids) + 1, Len(input_ids))

\* ---------------------------------------------------- the state machine

VARIABLES
  layout,         \* how model_output is made up
  model_output,   \* the text extract_tool_calls was called with
  pc,             \* where the call is: "marker", "fenced", "bare", "select", "done"
  candidates,     \* the list candidates
  result,         \* what the call returned (or that it raised), once pc = "done"
  output,         \* the complete output a stream of deltas is cut from
  previous_text,  \* previous_text of the last streaming call
  current_text,   \* current_text of the last streaming call
  delta_text,     \* delta_text of the last streaming call
  delta_message,  \* the DeltaMessage the last streaming call returned
  emitted,        \* the pieces emitted so far, concatenated by the caller
  segmented,      \* what extract_reasoning_content returned for output
  content_ids     \* what extract_content_ids returned for the ids of output

extraction == <<layout, model_output, candidates, result>>
reasoning == <<output, previous_text, current_text, delta_text, delta_message,
               emitted, segmented, content_ids>>
vars == <<layout, model_output, pc, candidates, result, output, previous_text,
          current_text, delta_text, delta_message, emitted, segmented, content_ids>>

NoResult == [raised |-> FALSE, tools_called |-> FALSE, tool_calls |-> <<>>, content |-> None]

\* no streaming call was made and nothing was segmented
NoStream ==
  /\ output = <<>>
  /\ previous_text = <<>>
  /\ current_text = <<>>
  /\ delta_text = <<>>
  /\ delta_message = DeltaMessage(None, None)
  /\ emitted = DeltaMessage(None, None)
  /\ segmented = [reasoning |-> None, content |-> None]
  /\ content_ids = <<>>

\* extract_tool_calls is entered with some model output: line 52
Init ==
  /\ layout \in Layouts
  /\ model_output = Render(layout)
  /\ pc = "marker"
  /\ candidates = <<>>
  /\ result = NoResult
  /\ NoStream

\* a strategy adds its candidates and hands over to the next, or raises
Step(found, next) ==
  /\ IF found.raised
     THEN pc' = "done" /\ result' = Raised /\ UNCHANGED candidates
     ELSE pc' = next /\ candidates' = candidates \o found.cands /\ UNCHANGED result
  /\ UNCHANGED <<layout, model_output>>
  /\ UNCHANGED reasoning

\* lines 54-72
MarkerStrategy == pc = "marker" /\ Step(MarkerCandidates(model_output), "fenced")

\* lines 74-87
FencedStrategy == pc = "fenced" /\ Step(FencedCandidates(model_output), "bare")

\* lines 89-104
BareStrategy == pc = "bare" /\ Step(BareCandidates(model_output), "select")

\* lines 106-120
Select ==
  /\ pc = "select"
  /\ result' = Selected(model_output, candidates)
  /\ pc' = "done"
  /\ UNCHANGED <<layout, model_output, candidates>>
  /\ UNCHANGED reasoning

Next == MarkerStrategy \/ FencedStrategy \/ BareStrategy \/ Select

Spec == Init /\ [][Next]_vars

\* ---------------------------------------------- the stream of deltas

\* the most tokens of an output after its begin marker
MaxOutput == 5

\* what an output is made of after its begin marker
StreamTokens == {"x", NL, SP, think_end}

\* the complete outputs: with or without the begin marker at their start
Outputs ==
  UNION {{begin \o body : begin \in {<<>>, <<think_start>>},
                          body \in [1..n -> StreamTokens]} : n \in 0..MaxOutput}

\* the caller's concatenation of the pieces of one kind: None until a piece
\* of the kind was emitted
Concat(sofar, piece) ==
  IF ~piece.present THEN sofar
  ELSE [present |-> TRUE, text |-> sofar.text \o piece.text]

\* the stream is followed from behind the begin marker, as the calls of
\* test_streaming_parsing are: current_text holds the marker already
StreamInit ==
  /\ output \in Outputs
  /\ previous_text = <<>>
  /\ current_text = (IF Contains(output, <<think_start>>) THEN <<think_start>> ELSE <<>>)
  /\ delta_text = <<>>
  /\ delta_message = DeltaMessage(None, None)
  /\ emitted = DeltaMessage(None, None)
  /\ segmented = [reasoning |-> None, content |-> None]
  /\ content_ids = <<>>
  /\ pc = "stream"
  /\ layout = [pre |-> <<>>, calls |-> <<>>, post |-> <<>>]
  /\ model_output = <<>>
  /\ candidates = <<>>
  /\ result = NoResult

\* one streaming call, its previous snapshot the current one of the call before
Call(delta) ==
  /\ previous_text' = current_text
  /\ current_text' = current_text \o delta
  /\ delta_text' = delta
  /\ delta_message' =
       extract_reasoning_content_streaming(
         current_text, current_text \o delta, delta,
         TokenIds(current_text), TokenIds(current_text \o delta), TokenIds(delta))
  /\ emitted' =
       DeltaMessage(Concat(emitted.reasoning_content, delta_message'.reasoning_content),
                    Concat(emitted.content, delta_message'.content))

\* the next delta of the output, of any length, goes through the tracker
Track ==
  /\ pc = "stream"
  /\ \E n \in 1..(Len(output) - Len(current_text)) :
       Call(SubSeq(output, Len(current_text) + 1, Len(current_text) + n))
  /\ UNCHANGED <<pc, output, segmented, content_ids>>
  /\ UNCHANGED extraction

\* the complete output goes through the segmenter
Segment ==
  /\ pc = "stream"
  /\ current_text = output
  /\ segmented' = extract_reasoning_content(output)
  /\ pc' = "segmented"
  /\ UNCHANGED <<output, previous_text, current_text, delta_text, delta_message,
                 emitted, content_ids>>
  /\ UNCHANGED extraction

\* the ids of the complete output go through extract_content_ids
ContentIds ==
  /\ pc = "segmented"
  /\ content_ids' = extract_content_ids(TokenIds(output))
  /\ pc' = "finished"
  /\ UNCHANGED <<output, previous_text, current_text, delta_text, delta_message,
                 emitted, segmented>>
  /\ UNCHANGED extraction

StreamNext == Track \/ Segment \/ ContentIds

StreamSpec == StreamInit /\ [][StreamNext]_vars

\* ------------------------------------------------------------ the claims

Done == pc = "done"

\* the call returned a result
Returned == Done /\ ~result.raised

\* the candidate the result was taken from: candidates[0] after the sort
Winner == Head(SortByStart(candidates))

\* A parsed value is a mapping with a string that is not blank under "name"
\* and a mapping or a string under "arguments" (stated on the value itself).
IsToolCallShape(r) ==
  /\ r.ok
  /\ r.v.t = "obj"
  /\ \E i \in 1..Len(r.v.items) :
       /\ r.v.items[i].k = <<"name">>
       /\ r.v.items[i].v.t = "str"
       /\ \E k \in 1..Len(r.v.items[i].v.s) : r.v.items[i].v.s[k] \notin Whitespace
  /\ \E j \in 1..Len(r.v.items) :
       /\ r.v.items[j].k = <<"arguments">>
       /\ r.v.items[j].v.t \in {"obj", "str"}

\* the value under a key of a parsed mapping
ValueUnder(r, key) ==
  r.v.items[CHOOSE i \in 1..Len(r.v.items) : r.v.items[i].k = <<key>>].v

\* the texts the strategies hand to _parse_json_tool_call for an output
ExaminedTexts(text) ==
  (IF MarkersPresent(text)
   THEN {strip(Slice(text, find(text, <<tool_use_start>>) + 1,
                     find(text, <<tool_use_end>>)))}
   ELSE {})
    \cup {_extract_json_blocks(text)[i].inner_content :
            i \in 1..Len(_extract_json_blocks(text))}
    \cup (IF _find_json_in_text(text).found
          THEN {_find_json_in_text(text).text} ELSE {})

\* no text a strategy examines for the output is a valid tool call
NothingValid(text) ==
  \A t \in ExaminedTexts(text) : ~IsToolCallShape(ParsedToolCall(t))

\* C1 (as claimed): when no candidate of any strategy passed repair and
\* validation, the call returns a result with tools_called = false, no tool
\* call, and the whole input as content, not trimmed and not absent.
C1_NoMatchReturnsInput ==
  (Done /\ NothingValid(model_output))
    => /\ ~result.raised
       /\ ~result.tools_called
       /\ result.tool_calls = <<>>
       /\ result.content = [present |-> TRUE, text |-> model_output]

\* C2 (as claimed): with two independently valid tool-call objects in the
\* output, in any two forms, the call returned is that of the object that
\* starts first.
C2_EarliestValidWins ==
  (/\ Done
   /\ Len(layout.calls) = 2
   /\ \A i \in 1..2 : IsToolCallShape(loads(layout.calls[i].object)))
    => /\ result.tools_called
       /\ Len(result.tool_calls) = 1
       /\ result.tool_calls[1].name
            = ValueUnder(loads(layout.calls[1].object), "name").s

\* C3 (as claimed): on a match, content is the text before the place the
\* winning candidate itself occurs at, trimmed, and absent when that is empty.
C3_ContentIsPrefixOfWinner ==
  (Done /\ result.tools_called)
    => result.content = OrNone(strip(Slice(model_output, 0, Winner.at)))

\* C4 (as claimed): a tool call is returned only from a text whose parsed
\* value is a mapping with a non-blank string name and mapping-or-string
\* arguments; when every text the strategies examined is of another shape,
\* the call returns tools_called = false and no tool call.
C4_OnlyValidShapesReturn ==
  Done =>
    /\ \A i \in 1..Len(candidates) :
         IsToolCallShape(ParsedToolCall(candidates[i].json_str))
    /\ result.tools_called => candidates # <<>>
    /\ NothingValid(model_output)
         => (~result.raised /\ ~result.tools_called /\ result.tool_calls = <<>>)

\* C5 (as claimed): extract_tool_calls returns a result for every input: no
\* parse failure and no schema violation reaches the caller as an exception.
C5_NeverRaises == Done => ~result.raised

\* C6: in every result returned, tools_called is true exactly when
\* tool_calls is not empty, and tool_calls holds at most one call, however
\* many valid calls the text has.
C6_CalledIffOneCall ==
  Returned =>
    /\ result.tools_called <=> result.tool_calls # <<>>
    /\ Len(result.tool_calls) <= 1

\* C6 witness: two candidates were valid, one call was returned
C6_Witness ==
  /\ Returned
  /\ Len(candidates) >= 2
  /\ result.tools_called
  /\ Len(result.tool_calls) = 1

\* the text content carries: the prefix of the winner, or the whole output
CarriedText ==
  IF result.tools_called THEN Slice(model_output, 0, Winner.start) ELSE model_output

\* C7 (as claimed): on both paths the content of a result returned is absent
\* exactly when the text it would carry is empty after trimming; it is never
\* present and blank.
C7_ContentAbsentIffBlank ==
  Returned =>
    /\ ~result.content.present <=> strip(CarriedText) = <<>>
    /\ result.content.present => strip(result.content.text) # <<>>

\* C8: mapping arguments of the winning candidate, serialized, parse back to
\* that mapping; string arguments are passed through unchanged.
C8_ArgumentsRoundTrip ==
  (Done /\ result.tools_called)
    => LET arguments == ValueUnder(ParsedToolCall(Winner.json_str), "arguments")
           returned == result.tool_calls[1].arguments
       IN IF arguments.t = "obj"
          THEN loads(returned).ok /\ loads(returned).v = arguments
          ELSE returned = arguments.s

\* C8 witness: the winner carried a mapping with a mapping inside
C8_Witness ==
  /\ Done /\ result.tools_called
  /\ ValueUnder(ParsedToolCall(Winner.json_str), "arguments").t = "obj"
  /\ \E i \in 1..Len(ValueUnder(ParsedToolCall(Winner.json_str), "arguments").items) :
       ValueUnder(ParsedToolCall(Winner.json_str), "arguments").items[i].v.t = "obj"

\* C9 (as claimed): a candidate text that is valid JSON already parses,
\* after the repair stages, to the value it had, so a valid tool-call object
\* in a fenced block is accepted with its own name and arguments.
C9_RepairKeepsValidJson ==
  (/\ Done
   /\ Len(layout.calls) = 1
   /\ layout.calls[1].form = "fenced"
   /\ IsToolCallShape(loads(layout.calls[1].object)))
    => /\ ParsedToolCall(layout.calls[1].object) = loads(layout.calls[1].object)
       /\ result.tools_called
       /\ result.tool_calls[1].name
            = ValueUnder(loads(layout.calls[1].object), "name").s

\* an object whose only defects are // comments and trailing commas
OnlyCommentsAndCommas(object) ==
  /\ ~loads(object).ok
  /\ loads(object).exc = "JSONDecodeError"
  /\ IsToolCallShape(loads(StripTrailingCommas(StripComments(object))))

\* C10 (as claimed): a tool-call object whose only defects are // comments
\* and trailing commas is recovered in whatever form it stands: between the
\* markers, in a fenced block, as the whole text, or bare inside other text.
C10_NearMissRecoveredEverywhere ==
  (/\ Done
   /\ Len(layout.calls) = 1
   /\ OnlyCommentsAndCommas(layout.calls[1].object))
    => /\ result.tools_called
       /\ result.tool_calls[1].name
            = ValueUnder(loads(StripTrailingCommas(StripComments(layout.calls[1].object))),
                         "name").s

\* only one marker of the pair stands in the text
UnmatchedMarkers(text) ==
  Contains(text, <<tool_use_start>>) # Contains(text, <<tool_use_end>>)

\* an object that is a JSON syntax error also after every repair
Unrecoverable(object) ==
  /\ ~ParsedToolCall(object).ok
  /\ ParsedToolCall(object).exc = "JSONDecodeError"

\* C11 (as claimed): for an output with one marker of the pair only, or
\* whose object is a syntax error no repair removes, the call returns
\* tools_called = false and the whole input as content.
C11_UnmatchedOrBrokenReturnsInput ==
  (/\ Done
   /\ \/ UnmatchedMarkers(model_output)
      \/ Len(layout.calls) = 1 /\ Unrecoverable(layout.calls[1].object))
    => /\ ~result.raised
       /\ ~result.tools_called
       /\ result.content = [present |-> TRUE, text |-> model_output]

\* the stream is through and both other functions were applied
Finished == pc = "finished"

\* C12 (as claimed): for every complete output and every way of cutting it
\* into deltas fed to the tracker in order, the emitted reasoning_content
\* pieces together are the reasoning the segmenter returns for the whole
\* text, and the emitted content pieces together are its content.
C12_StreamingEqualsSegmenter ==
  Finished
    => /\ emitted.reasoning_content.text = segmented.reasoning.text
       /\ emitted.content.text = segmented.content.text

\* the text of the output after its first end marker
AfterBoundary(text) == After(After(text, <<think_start>>), <<think_end>>)

\* exactly two newlines directly follow the first end marker of the output
TwoNewlinesFollow(text) ==
  /\ Contains(text, <<think_end>>)
  /\ LeadingNewlines(AfterBoundary(text), 2) = 2
  /\ Len(AfterBoundary(text)) >= 3 => AfterBoundary(text)[3] # NL

\* C13 (as claimed): when exactly two newlines directly follow the end
\* marker, the content emitted over the whole stream is the text after the
\* marker without these two newlines, and without nothing else, however the
\* marker and the two newlines are spread over the deltas.
C13_TwoNewlinesRemovedOnce ==
  (Finished /\ TwoNewlinesFollow(output))
    => emitted.content.text = Slice(AfterBoundary(output), 2, Len(AfterBoundary(output)))

\* the last call was the one that crossed the boundary: the end marker id
\* is in its delta_token_ids and not in its previous_token_ids
CrossedNow ==
  /\ HasId(TokenIds(delta_text), think_end_id)
  /\ ~HasId(TokenIds(previous_text), think_end_id)

\* the text of the last delta after its end marker
AfterMarker == After(delta_text, <<think_end>>)

\* C14: in the call that crosses the boundary, when one newline and then
\* other text follow the marker, the content emitted is all the text after
\* the marker, the newline first, and reasoning_content is the text before
\* the marker; when the text after the marker starts with no newline, the
\* content emitted is that text unchanged.
C14_SingleNewlineKept ==
  CrossedNow
    => /\ (Len(AfterMarker) >= 2 /\ AfterMarker[1] = NL /\ AfterMarker[2] # NL)
            => /\ delta_message.content = [present |-> TRUE, text |-> AfterMarker]
               /\ delta_message.reasoning_content
                    = [present |-> TRUE, text |-> Before(delta_text, <<think_end>>)]
       /\ (AfterMarker # <<>> /\ AfterMarker[1] # NL)
            => delta_message.content = [present |-> TRUE, text |-> AfterMarker]

\* the call of the test: '<think>Reasoning' then the delta '</think>\nFinal'
C14_Witness ==
  /\ previous_text = <<think_start, "x">>
  /\ delta_text = <<think_end, NL, "x">>
  /\ delta_message = DeltaMessage([present |-> TRUE, text |-> <<>>],
                                  [present |-> TRUE, text |-> <<NL, "x">>])

\* C15: extract_content_ids returns the ids that stand strictly after the
\* first end marker id, in their order, and no id when the end marker id is
\* not among the ids or nothing follows its first occurrence.
C15_ContentIdsAfterFirstMarker ==
  Finished
    => IF \A k \in 1..Len(output) : TokenId(output[k]) # think_end_id
       THEN content_ids = <<>>
       ELSE \E k \in 1..Len(output) :
              /\ TokenId(output[k]) = think_end_id
              /\ \A j \in 1..(k - 1) : TokenId(output[j]) # think_end_id
              /\ Len(content_ids) = Len(output) - k
              /\ \A i \in 1..Len(content_ids) : content_ids[i] = TokenId(output[k + i])

\* ids as in the test ([1000, 200, 1001, 300, 200]): two ids are returned
C15_Witness ==
  /\ Finished
  /\ output = <<think_start, "x", think_end, NL, "x">>
  /\ content_ids = <<PlainIds.n, PlainIds.x>>

\* what the last call emitted, by the phase it was made in
PhaseOfLastCall ==
  delta_text # <<>>
    => /\ ~HasId(TokenIds(current_text), think_end_id)
            => delta_message = DeltaMessage([present |-> TRUE, text |-> delta_text], None)
       /\ CrossedNow
            => /\ delta_message.reasoning_content.present
               /\ AfterMarker = <<>> => ~delta_message.content.present
       /\ HasId(TokenIds(previous_text), think_end_id)
            => ~delta_message.reasoning_content.present

\* a call made once the end marker id is in the snapshot emits no reasoning
NoReasoningAfterBoundary ==
  (current_text' # current_text /\ HasId(TokenIds(current_text), think_end_id))
    => ~delta_message'.reasoning_content.present

\* C16: over the calls of a stream in order, a call made while the end
\* marker id is not in current_token_ids emits delta_text as
\* reasoning_content and no content; the call in which the id first appears
\* emits a reasoning_content that is present and, when nothing follows the
\* marker, no content; every call after it emits no reasoning_content, so
\* that none is emitted once the boundary was crossed.
C16_PhaseOrdering == [](PhaseOfLastCall) /\ [][NoReasoningAfterBoundary]_vars

\* a call after the boundary that emitted content only: '\n\nFinal' after
\* 'Reasoning</think>', as in the second call of the test's case 2
C16_Witness ==
  /\ previous_text = <<"x", think_end>>
  /\ delta_text = <<NL, NL, "x">>
  /\ emitted.reasoning_content = [present |-> TRUE, text |-> <<"x">>]
  /\ delta_message = DeltaMessage(None, [present |-> TRUE, text |-> <<"x">>])

\* the object is a valid tool call once repaired
ValidCall(object) == IsToolCallShape(ParsedToolCall(object))

\* every call of the layout stands in a fenced block, and there are several
SeveralBlocks(l) ==
  /\ Len(l.calls) >= 2
  /\ \A i \in 1..Len(l.calls) : l.calls[i].form = "fenced"

\* the text of the layout before the opening fence of its k-th call
TextBefore(l, k) == l.pre \o Joined(SubSeq(l.calls, 1, k - 1))

\* C17 (as claimed): of several fenced blocks, the first that holds a valid
\* tool call gives the call returned, whether invalid blocks stand before
\* it or not, and content is the trimmed text before its opening fence.
C17_EveryBlockConsidered ==
  (Done /\ SeveralBlocks(layout))
    => \A k \in 1..Len(layout.calls) :
         (/\ ValidCall(layout.calls[k].object)
          /\ \A j \in 1..(k - 1) : ~ValidCall(layout.calls[j].object))
           => /\ ~result.raised
              /\ result.tools_called
              /\ result.tool_calls
                   = <<MakeToolCall(ParsedToolCall(layout.calls[k].object).v)>>
              /\ result.content = OrNone(strip(TextBefore(layout, k)))

\* one bare object in text without markers and fences
BareInText(l) ==
  /\ Len(l.calls) = 1
  /\ l.calls[1].form = "bare"
  /\ ~Contains(l.pre, <<tool_use_end>>)

\* C18 (as claimed): a valid tool-call object that stands bare in other
\* text, without markers and fences, is found and returned however deep
\* the mapping under "arguments" is nested (the objects are those of a plain
\* name and arguments text, nested to every depth up to MaxDepth).
C18_BareFoundAtAnyDepth ==
  (/\ Done
   /\ BareInText(layout)
   /\ layout.calls[1].object \in ShapedObjects
   /\ IsToolCallShape(loads(layout.calls[1].object)))
    => /\ ~result.raised
       /\ result.tools_called
       /\ result.tool_calls = <<MakeToolCall(loads(layout.calls[1].object).v)>>

\* the k-th call of the layout is its only valid one, and every other call
\* stands in another form than it
OnlyValidOfItsForm(l, k) ==
  /\ ValidCall(l.calls[k].object)
  /\ \A j \in 1..Len(l.calls) :
       j # k => /\ ~ValidCall(l.calls[j].object)
                /\ l.calls[j].form # l.calls[k].form

\* C19 (as claimed): a candidate one strategy rejects never keeps the valid
\* candidate of another strategy from being returned: when the output holds
\* objects in several forms and the only valid one stands in a form of its
\* own, the result is tools_called = true with that object's call.
C19_StrategiesIndependent ==
  (Done /\ Len(layout.calls) >= 2)
    => \A k \in 1..Len(layout.calls) :
         OnlyValidOfItsForm(layout, k)
           => /\ ~result.raised
              /\ result.tools_called
              /\ result.tool_calls
                   = <<MakeToolCall(ParsedToolCall(layout.calls[k].object).v)>>

\* the object parses to a mapping with both keys that is no valid tool call
BothKeysButInvalid(object) ==
  /\ loads(object).ok
  /\ loads(object).v.t = "obj"
  /\ HasKey(loads(object).v, "name")
  /\ HasKey(loads(object).v, "arguments")
  /\ ~Validate(loads(object).v)

\* C20 (as claimed): when a bare object that has both keys and fails
\* validation stands before a bare object that is a valid tool call, the
\* result is tools_called = true with the call of the later object.
C20_LaterBareObjectTried ==
  (/\ Done
   /\ Len(layout.calls) = 2
   /\ \A i \in 1..2 : layout.calls[i].form = "bare"
   /\ BothKeysButInvalid(layout.calls[1].object)
   /\ ValidCall(layout.calls[2].object))
    => /\ ~result.raised
       /\ result.tools_called
       /\ result.tool_calls
            = <<MakeToolCall(ParsedToolCall(layout.calls[2].object).v)>>

====
